---- MODULE Spec2Model ----
(***************************************************************************)
(* Lint-regression detection of master/txbuildbot/lint.py: LintStep and    *)
(* its two adapters, CheckDocumentation (pydoctor) and                      *)
(* CheckCodesByTwistedChecker (twistedchecker).                             *)
(*                                                                         *)
(* Python strings are sequences of one-character strings, so that parsing, *)
(* formatting, sorting and log-name comparison are computed character by   *)
(* character as the code computes them.                                    *)
(***************************************************************************)
EXTENDS Integers, Sequences, FiniteSets, TLC

(***************************************************************************)
(* Python str primitives                                                   *)
(***************************************************************************)

\* The printable ASCII characters in code order, chr(32) .. chr(126). The
\* backquote, which a TLA+ string cannot hold, is the entry "chr(96)".
Printable ==
    <<" ", "!", "\"", "#", "$", "%", "&", "'", "(", ")", "*", "+", ",", "-",
      ".", "/", "0", "1", "2", "3", "4", "5", "6", "7", "8", "9", ":", ";",
      "<", "=", ">", "?", "@", "A", "B", "C", "D", "E", "F", "G", "H", "I",
      "J", "K", "L", "M", "N", "O", "P", "Q", "R", "S", "T", "U", "V", "W",
      "X", "Y", "Z", "[", "\\", "]", "^", "_", "chr(96)", "a", "b", "c", "d", "e",
      "f", "g", "h", "i", "j", "k", "l", "m", "n", "o", "p", "q", "r", "s",
      "t", "u", "v", "w", "x", "y", "z", "{", "|", "}", "~">>

Chars == {Printable[i] : i \in 1..Len(Printable)} \cup {"\n", "\t"}

\* ord(c), as a table over Chars.
OrdTable ==
    [c \in Chars |->
        IF c = "\t" THEN 9
        ELSE IF c = "\n" THEN 10
        ELSE 31 + (CHOOSE i \in 1..Len(Printable) : Printable[i] = c)]

Ord(c) == OrdTable[c]

Digits == {"0", "1", "2", "3", "4", "5", "6", "7", "8", "9"}

\* The characters str.strip() removes and the regex class \s matches.
Whitespace == {" ", "\t", "\n"}

\* cmp(a, b) < 0 for two str: lexicographic by character code.
RECURSIVE StrLess(_, _)
StrLess(a, b) ==
    IF b = <<>> THEN FALSE
    ELSE IF a = <<>> THEN TRUE
    ELSE IF Head(a) = Head(b) THEN StrLess(Tail(a), Tail(b))
    ELSE Ord(Head(a)) < Ord(Head(b))

\* s[i:] and s[:i] with 0-based Python indices, 0 <= i <= len(s).
From(s, i) == SubSeq(s, i + 1, Len(s))
UpTo(s, i) == SubSeq(s, 1, i)

\* s.startswith(p)
StartsWith(s, p) == Len(p) <= Len(s) /\ SubSeq(s, 1, Len(p)) = p

\* s.find(sub): the least 0-based index where sub occurs, or -1.
Find(s, sub) ==
    LET hits == {i \in 0..(Len(s) - Len(sub)) :
                    SubSeq(s, i + 1, i + Len(sub)) = sub}
    IN IF hits = {} THEN -1
       ELSE CHOOSE i \in hits : \A j \in hits : i <= j

\* sub in s
Contains(s, sub) == Find(s, sub) >= 0

\* s.replace(old, ""): every non-overlapping occurrence, left to right.
RECURSIVE ReplaceWithEmpty(_, _)
ReplaceWithEmpty(s, old) ==
    LET i == Find(s, old)
    IN IF old = <<>> \/ i < 0 THEN s
       ELSE UpTo(s, i) \o ReplaceWithEmpty(From(s, i + Len(old)), old)

\* s.strip(chars): drop leading and trailing characters of the set.
RECURSIVE LStrip(_, _)
LStrip(s, cs) ==
    IF s # <<>> /\ Head(s) \in cs THEN LStrip(Tail(s), cs) ELSE s

RECURSIVE RStrip(_, _)
RStrip(s, cs) ==
    IF s # <<>> /\ s[Len(s)] \in cs THEN RStrip(UpTo(s, Len(s) - 1), cs) ELSE s

Strip(s, cs) == RStrip(LStrip(s, cs), cs)

\* s.split(sep) for a one-character sep: the list of fields.
RECURSIVE Split(_, _)
Split(s, sep) ==
    LET i == Find(s, <<sep>>)
    IN IF i < 0 THEN <<s>>
       ELSE <<UpTo(s, i)>> \o Split(From(s, i + 1), sep)

\* s.split(sep, 1): at most one split.
SplitOnce(s, sep) ==
    LET i == Find(s, <<sep>>)
    IN IF i < 0 THEN <<s>> ELSE <<UpTo(s, i), From(s, i + 1)>>

\* sep.join(parts)
RECURSIVE Join(_, _)
Join(parts, sep) ==
    IF parts = <<>> THEN <<>>
    ELSE IF Len(parts) = 1 THEN parts[1]
    ELSE parts[1] \o sep \o Join(Tail(parts), sep)

\* Iterating a StringIO: the lines of the text, each with its "\n" kept, the
\* last one without when the text does not end in "\n".
RECURSIVE ReadLines(_)
ReadLines(text) ==
    IF text = <<>> THEN <<>>
    ELSE LET i == Find(text, <<"\n">>)
         IN IF i < 0 THEN <<text>>
            ELSE <<UpTo(text, i + 1)>> \o ReadLines(From(text, i + 1))

\* sorted(xs) for a list under a strict order less(_, _); equal elements keep
\* their order (the sort is stable). The element at 0-based rank r is the one
\* with r elements before it in the result.
SortBy(xs, less(_, _)) ==
    LET before(j, i) == less(xs[j], xs[i])
                        \/ (~less(xs[i], xs[j]) /\ j < i)
        rank(i) == Cardinality({j \in 1..Len(xs) : before(j, i)})
    IN [k \in 1..Len(xs) |->
            xs[CHOOSE i \in 1..Len(xs) : rank(i) = k - 1]]

\* sorted(S) for a set whose elements less(_, _) orders totally: the result
\* does not depend on the set's iteration order.
SortSet(S, less(_, _)) ==
    [k \in 1..Cardinality(S) |->
        CHOOSE x \in S : Cardinality({y \in S : less(y, x)}) = k - 1]

(***************************************************************************)
(* Python dict and set, with the element equality the classes define       *)
(***************************************************************************)

\* {}: a dict is a function from its keys.
EmptyDict == [k \in {} |-> {}]

\* d.get(k, default)
Get(d, k, default) == IF k \in DOMAIN d THEN d[k] ELSE default

\* d[k] = v
Put(d, k, v) == [x \in DOMAIN d \cup {k} |-> IF x = k THEN v ELSE d[x]]

\* A Python str held as an element of a set of findings.
Str(s) == [str |-> s]

\* str(x): a str is itself, a TwistedCheckerError is its msg (__str__).
ToStr(x) == IF "str" \in DOMAIN x THEN x.str ELSE x.msg

\* str of each element of a list.
MapStr(xs) == [i \in 1..Len(xs) |-> ToStr(xs[i])]

\* Mutant: the line number compared too.
PyEqWithLine(a, b) ==
    IF "str" \in DOMAIN a THEN a = b
    ELSE a.type = b.type /\ a.text = b.text /\ a.line = b.line

\* a == b as set membership sees it: str equality, and for a
\* TwistedCheckerError FancyEqMixin over compareAttributes = (type, text),
\* the pair __hash__ hashes.
PyEq(a, b) ==
    IF "str" \in DOMAIN a THEN a = b
    ELSE a.type = b.type /\ a.text = b.text

\* Mutant: the element added replaces the one equal to it.
SetAddKeepLast(S, x) == {y \in S : ~PyEq(y, x)} \cup {x}

\* s.add(x): an element equal to x already in the set stays.
SetAdd(S, x) == IF \E y \in S : PyEq(y, x) THEN S ELSE S \cup {x}

\* set(xs): the elements added in list order.
RECURSIVE SetOf(_)
SetOf(xs) ==
    IF xs = <<>> THEN {}
    ELSE SetAdd(SetOf(UpTo(xs, Len(xs) - 1)), xs[Len(xs)])

\* a - b for two sets: the elements of a equal to no element of b.
SetMinus(A, B) == {x \in A : ~\E y \in B : PyEq(x, y)}

(***************************************************************************)
(* LintStep.computeDifference                                              *)
(***************************************************************************)

\* The loop over the keys of current, building the dict new.
RECURSIVE computeDifferenceLoop(_, _, _, _)
computeDifferenceLoop(current, previous, todo, new) ==
    IF todo = {} THEN new
    ELSE LET errorType == CHOOSE t \in todo : TRUE
             errors == SetMinus(current[errorType],
                                Get(previous, errorType, {}))
         IN computeDifferenceLoop(
                current, previous, todo \ {errorType},
                IF errors # {} THEN Put(new, errorType, errors) ELSE new)

\* Mutant: the test "if errors:" left out, so that keys with nothing new stay.
computeDifferenceKeepingEmpty(current, previous) ==
    [errorType \in DOMAIN current |->
        SetMinus(current[errorType], Get(previous, errorType, {}))]

\* Mutant: nothing subtracted.
computeDifferenceAll(current, previous) == current

\* Mutant: the difference taken both ways.
computeDifferenceSymmetric(current, previous) ==
    LET both == DOMAIN current \cup DOMAIN previous
        diff == [k \in both |->
                    SetMinus(Get(current, k, {}), Get(previous, k, {}))
                    \cup SetMinus(Get(previous, k, {}), Get(current, k, {}))]
    IN [k \in {x \in both : diff[x] # {}} |-> diff[k]]

computeDifference(current, previous) ==
    computeDifferenceLoop(current, previous, DOMAIN current, EmptyDict)

(***************************************************************************)
(* LintStep.computeDifference on objects                                   *)
(*                                                                         *)
(* The dicts and sets of a call as objects with an identity: objects is    *)
(* the list of the objects made so far, the reference of an object is its  *)
(* index, a set object holds its elements and a dict object the references *)
(* of its values.                                                          *)
(***************************************************************************)

\* None
NoneRef == 0

\* The object just made, with the objects after it was made.
Made(objects) == [objects |-> objects, ref |-> Len(objects)]

\* set(): a new empty set.
NewSet(objects) == Made(Append(objects, [set |-> {}]))

\* {}: a new empty dict.
NewDict(objects) == Made(Append(objects, [dict |-> EmptyDict]))

\* Mutant: a -= b, the difference taken in the set a itself.
SetDifferenceInPlace(objects, a, b) ==
    [objects |-> [objects EXCEPT
                    ![a] = [set |-> SetMinus(objects[a].set, objects[b].set)]],
     ref |-> a]

\* a - b: a new set of the elements of a equal to no element of b.
SetDifference(objects, a, b) ==
    Made(Append(objects, [set |-> SetMinus(objects[a].set, objects[b].set)]))

\* previous.get(errorType, set()): the default is made before get is
\* called, whether it is used or not.
GetOrNewSet(objects, previous, errorType) ==
    LET default == NewSet(objects)
    IN [objects |-> default.objects,
        ref |-> Get(objects[previous].dict, errorType, default.ref)]

\* new[errorType] = errors
SetItem(objects, new, errorType, errors) ==
    [objects EXCEPT ![new] = [dict |-> Put(@.dict, errorType, errors)]]

\* The body of the loop for one key of current.
computeDifferenceStep(objects, current, previous, new, errorType) ==
    LET other == GetOrNewSet(objects, previous, errorType)
        errors == SetDifference(other.objects,
                                objects[current].dict[errorType], other.ref)
    IN IF errors.objects[errors.ref].set # {}
       THEN SetItem(errors.objects, new, errorType, errors.ref)
       ELSE errors.objects

\* The loop over the keys of the dict current.
RECURSIVE computeDifferenceSteps(_, _, _, _, _)
computeDifferenceSteps(objects, current, previous, new, todo) ==
    IF todo = {} THEN objects
    ELSE LET errorType == CHOOSE t \in todo : TRUE
         IN computeDifferenceSteps(
                computeDifferenceStep(objects, current, previous, new,
                                      errorType),
                current, previous, new, todo \ {errorType})

\* computeDifference(current, previous) on the references of two dicts: the
\* objects after the call and the reference of the dict returned.
computeDifferenceObjects(objects, current, previous) ==
    LET new == NewDict(objects)
    IN [objects |-> computeDifferenceSteps(new.objects, current, previous,
                                           new.ref,
                                           DOMAIN objects[current].dict),
        ref |-> new.ref]

\* A dict of sets made as objects: its sets first, then the dict.
RECURSIVE DictOfSets(_, _, _, _)
DictOfSets(objects, d, todo, refs) ==
    IF todo = {} THEN Made(Append(objects, [dict |-> refs]))
    ELSE LET k == CHOOSE t \in todo : TRUE
         IN DictOfSets(Append(objects, [set |-> d[k]]), d, todo \ {k},
                       Put(refs, k, Len(objects) + 1))

\* The dict of sets a dict object stands for.
ValueOf(objects, ref) ==
    [k \in DOMAIN objects[ref].dict |-> objects[objects[ref].dict[k]].set]

\* The arguments of a call made as objects, none of them shared.
Arguments(current, previous) ==
    LET c == DictOfSets(<<>>, current, DOMAIN current, EmptyDict)
        p == DictOfSets(c.objects, previous, DOMAIN previous, EmptyDict)
    IN [objects |-> p.objects, current |-> c.ref, previous |-> p.ref,
        new |-> NoneRef]

\* No call of computeDifference on objects.
NoObjects ==
    [objects |-> <<>>, current |-> NoneRef, previous |-> NoneRef,
     new |-> NoneRef]

(***************************************************************************)
(* CheckDocumentation (pydoctor)                                           *)
(***************************************************************************)

InvalidRefTo == <<"i", "n", "v", "a", "l", "i", "d", " ", "r", "e", "f", " ", "t", "o">>
FoundUnknownFieldOn ==
    <<"f", "o", "u", "n", "d", " ", "u", "n", "k", "n", "o", "w", "n", " ",
      "f", "i", "e", "l", "d", " ", "o", "n">>

\* value = '%s: %s' % (fqpn, rest), after fqpn, lineno = fq; unpacking a
\* list of another length raises ValueError.
CheckDocumentation_value(fq, rest) ==
    IF Len(fq) # 2 THEN [action |-> "raise"]
    ELSE [action |-> "add", key |-> "invalid ref",
          value |-> Str(fq[1] \o <<":", " ">> \o rest)]

\* fqpnlineno, rest = parts, then fqpnlineno.split(':')
CheckDocumentation_invalidRef(parts) ==
    IF Len(parts) # 2 THEN [action |-> "raise"]
    ELSE CheckDocumentation_value(Split(parts[1], ":"), parts[2])

\* The loop body on the stripped line: what it does to errors.
CheckDocumentation_stripped(line) ==
    IF Contains(line, InvalidRefTo)
    THEN CheckDocumentation_invalidRef(SplitOnce(line, " "))
    ELSE IF Contains(line, FoundUnknownFieldOn)
    THEN [action |-> "add", key |-> "unknown fields", value |-> Str(line)]
    ELSE [action |-> "continue"]

\* line = line.strip(), and the loop body.
CheckDocumentation_line(rawLine) ==
    CheckDocumentation_stripped(Strip(rawLine, Whitespace))

\* errors.setdefault(key, set()).add(value), when the line adds a value.
CheckDocumentation_add(errors, r) ==
    IF r.action = "add"
    THEN Put(errors, r.key, SetAdd(Get(errors, r.key, {}), r.value))
    ELSE errors

RECURSIVE CheckDocumentation_loop(_, _)
CheckDocumentation_loop(lines, errors) ==
    IF lines = <<>> THEN [raised |-> FALSE, errors |-> errors]
    ELSE LET r == CheckDocumentation_line(Head(lines))
         IN IF r.action = "raise"
            THEN [raised |-> TRUE, errors |-> EmptyDict]
            ELSE CheckDocumentation_loop(Tail(lines),
                                         CheckDocumentation_add(errors, r))

\* CheckDocumentation.computeErrors(logText): the dict of sets, or raised.
CheckDocumentation_computeErrors(logText) ==
    CheckDocumentation_loop(ReadLines(logText), EmptyDict)

StrObjLess(a, b) == StrLess(a.str, b.str)

\* The list allNewErrors after the loop's extend calls: every value of every
\* key (the order before the sort does not reach the result).
RECURSIVE Extended(_, _)
Extended(newErrors, todo) ==
    IF todo = {} THEN <<>>
    ELSE LET errorType == CHOOSE t \in todo : TRUE
         IN SortSet(newErrors[errorType], StrObjLess)
            \o Extended(newErrors, todo \ {errorType})

\* CheckDocumentation.formatErrors(newErrors): the sorted list of str.
CheckDocumentation_formatErrors(newErrors) ==
    MapStr(SortBy(Extended(newErrors, DOMAIN newErrors), StrObjLess))

(***************************************************************************)
(* TwistedCheckerError                                                     *)
(***************************************************************************)

\* The character class [WCEFR].
TypeLetters == {"W", "C", "E", "F", "R"}

\* The length of the longest prefix of s made of characters of cs.
RECURSIVE Span(_, _)
Span(s, cs) == IF s # <<>> /\ Head(s) \in cs THEN 1 + Span(Tail(s), cs) ELSE 0

\* re.search(regexLineStart, line), regexLineStart = "^[WCEFR]\d{4}\:".
MatchesLineStart(line) ==
    /\ Len(line) >= 6
    /\ line[1] \in TypeLetters
    /\ \A i \in 2..5 : line[i] \in Digits
    /\ line[6] = ":"

\* s up to its first newline: what .* matches.
FirstLine(s) == UpTo(s, Span(s, Chars \ {"\n"}))

NoMatch == [matched |-> FALSE]

\* The rest of the match once (?P<line>\s*\d+) has matched msg[6:p2] and "," is
\* at p2: (?P<indent>\d+) is msg[p2+1:p3], ":" must follow, and .* is the
\* rest of that line.
RegexMatchIndent(msg, p2, p3) ==
    IF p3 = p2 + 1 \/ p3 >= Len(msg) \/ msg[p3 + 1] # ":" THEN NoMatch
    ELSE [matched |-> TRUE,
          type |-> UpTo(msg, 5),
          line |-> SubSeq(msg, 7, p2),
          indent |-> SubSeq(msg, p2 + 2, p3),
          text |-> FirstLine(From(msg, p3 + 1))]

\* \s* has matched msg[6:p1] and \d+ matches msg[p1:p2]; "," must follow.
RegexMatchLine(msg, p1, p2) ==
    IF p2 = p1 \/ p2 >= Len(msg) \/ msg[p2 + 1] # "," THEN NoMatch
    ELSE RegexMatchIndent(msg, p2,
                          p2 + 1 + Span(From(msg, p2 + 1), Digits))

RegexMatchSpace(msg, p1) ==
    RegexMatchLine(msg, p1, p1 + Span(From(msg, p1), Digits))

\* TwistedCheckerError.regex.match(msg):
\*   ^(?P<type>[WCEFR]\d{4}):(?P<line>\s*\d+),(?P<indent>\d+):(?P<text>.*)
\* with 0-based positions in msg. \s* and each \d+ take all they can, since
\* what must follow each is of another class; .* stops at the first newline.
RegexMatch(msg) ==
    IF ~MatchesLineStart(msg) THEN NoMatch
    ELSE RegexMatchSpace(msg, 6 + Span(From(msg, 6), Whitespace))

\* Mutant: without a match the fields are cut from msg.
TwistedCheckerError_initNoSentinel(msg, m) ==
    IF m.matched
    THEN [msg |-> msg, type |-> m.type, line |-> m.line,
          indent |-> m.indent, text |-> m.text]
    ELSE [msg |-> msg, type |-> UpTo(msg, 5), line |-> <<"0">>,
          indent |-> <<"0">>, text |-> From(msg, 6)]

\* The attributes __init__ sets from the match m.
TwistedCheckerError_init(msg, m) ==
    IF m.matched
    THEN [msg |-> msg, type |-> m.type, line |-> m.line,
          indent |-> m.indent, text |-> m.text]
    ELSE [msg |-> msg,
          type |-> <<"U", "X", "X", "X", "X">>,
          line |-> <<"9", "9", "9", "9">>,
          indent |-> <<"9">>,
          text |-> <<"U", "n", "p", "a", "r", "s", "e", "a", "b", "l", "e">>]

\* TwistedCheckerError(msg)
TwistedCheckerError(msg) == TwistedCheckerError_init(msg, RegexMatch(msg))

\* TwistedCheckerError.__hash__(self): the tuple that is hashed.
TwistedCheckerError_hash(self) == <<self.type, self.text>>

\* cmp of two tuples of str: the first differing component decides.
RECURSIVE TupleLess(_, _)
TupleLess(x, y) ==
    IF x = <<>> \/ y = <<>> THEN x = <<>> /\ y # <<>>
    ELSE IF Head(x) = Head(y) THEN TupleLess(Tail(x), Tail(y))
    ELSE StrLess(Head(x), Head(y))

\* TwistedCheckerError.__cmp__(self, other) < 0
TwistedCheckerError_cmp(self, other) ==
    TupleLess(<<self.line, self.indent, self.type, self.text>>,
              <<other.line, other.indent, other.type, other.text>>)

(***************************************************************************)
(* CheckCodesByTwistedChecker (twistedchecker)                             *)
(***************************************************************************)

prefixModuleName ==
    <<"*", "*", "*", "*", "*", "*", "*", "*", "*", "*", "*", "*", "*", " ",
      "M", "o", "d", "u", "l", "e", " ">>

\* map(TwistedCheckerError, xs)
MapError(xs) == [i \in 1..Len(xs) |-> TwistedCheckerError(xs[i])]

\* "if currentModule:" is false for None and for the empty str.
Truthy(module) == ~module.isNone /\ module.name # <<>>

\* warnings[currentModule] = set(map(TwistedCheckerError,
\* warningsCurrentModule)), under "if currentModule:".
SaveModule(st) ==
    IF Truthy(st.currentModule)
    THEN Put(st.warnings, st.currentModule.name,
             SetOf(MapError(st.warningsCurrentModule)))
    ELSE st.warnings

\* The loop body of computeErrors on the line with its newlines stripped;
\* st holds warnings, currentModule and warningsCurrentModule.
CheckCodesByTwistedChecker_line(st, line) ==
    IF StartsWith(line, prefixModuleName)
    THEN [warnings |-> SaveModule(st),
          currentModule |->
            [isNone |-> FALSE,
             name |-> ReplaceWithEmpty(line, prefixModuleName)],
          warningsCurrentModule |-> <<>>]
    ELSE IF MatchesLineStart(line)
    THEN [st EXCEPT !.warningsCurrentModule = Append(@, line)]
    ELSE IF st.warningsCurrentModule # <<>>
    THEN [st EXCEPT !.warningsCurrentModule[Len(st.warningsCurrentModule)] =
            @ \o <<"\n">> \o line]
    ELSE st

RECURSIVE CheckCodesByTwistedChecker_loop(_, _)
CheckCodesByTwistedChecker_loop(lines, st) ==
    IF lines = <<>> THEN st
    ELSE CheckCodesByTwistedChecker_loop(
            Tail(lines),
            CheckCodesByTwistedChecker_line(st, Strip(Head(lines), {"\n"})))

\* CheckCodesByTwistedChecker.computeErrors(logText); it raises nothing.
CheckCodesByTwistedChecker_computeErrors(logText) ==
    [raised |-> FALSE,
     errors |-> SaveModule(CheckCodesByTwistedChecker_loop(
                    ReadLines(logText),
                    [warnings |-> EmptyDict,
                     currentModule |-> [isNone |-> TRUE, name |-> <<>>],
                     warningsCurrentModule |-> <<>>]))]

\* Mutant: the errors of a module in the order of their msg.
RECURSIVE FormatModulesByMsg(_, _)
FormatModulesByMsg(newErrors, keys) ==
    IF keys = <<>> THEN <<>>
    ELSE <<prefixModuleName \o Head(keys)>>
         \o SortSet({x.msg : x \in newErrors[Head(keys)]}, StrLess)
         \o FormatModulesByMsg(newErrors, Tail(keys))

\* The lines of the modules of the list keys, in list order: the header, then
\* the module's errors sorted by __cmp__ and turned to str.
RECURSIVE FormatModules(_, _)
FormatModules(newErrors, keys) ==
    IF keys = <<>> THEN <<>>
    ELSE <<prefixModuleName \o Head(keys)>>
         \o MapStr(SortSet(newErrors[Head(keys)], TwistedCheckerError_cmp))
         \o FormatModules(newErrors, Tail(keys))

\* CheckCodesByTwistedChecker.formatErrors(newErrors)
CheckCodesByTwistedChecker_formatErrors(newErrors) ==
    FormatModules(newErrors, SortSet(DOMAIN newErrors, StrLess))

(***************************************************************************)
(* LintStep                                                                *)
(***************************************************************************)

\* The two steps built on LintStep.
Adapters == {"CheckDocumentation", "CheckCodesByTwistedChecker"}

\* The class attribute lintChecker.
lintChecker(adapter) ==
    IF adapter = "CheckDocumentation"
    THEN <<"p", "y", "d", "o", "c", "t", "o", "r">>
    ELSE <<"t", "w", "i", "s", "t", "e", "d", "c", "h", "e", "c", "k", "e", "r">>

\* '%s errors' % self.lintChecker
ErrorsLogName(adapter) ==
    lintChecker(adapter) \o <<" ", "e", "r", "r", "o", "r", "s">>

\* 'new %s errors' % self.lintChecker
NewErrorsLogName(adapter) == <<"n", "e", "w", " ">> \o ErrorsLogName(adapter)

\* The name of the log that holds the output of the command.
StdioLogName == <<"s", "t", "d", "i", "o">>

\* Whether a list of logs has one of the given name.
HasLog(buildLogs, name) == \E i \in 1..Len(buildLogs) : buildLogs[i].name = name

\* self.computeErrors(logText), by the class of self.
computeErrors(adapter, logText) ==
    IF adapter = "CheckDocumentation"
    THEN CheckDocumentation_computeErrors(logText)
    ELSE CheckCodesByTwistedChecker_computeErrors(logText)

\* self.formatErrors(newErrors), by the class of self.
formatErrors(adapter, newErrors) ==
    IF adapter = "CheckDocumentation"
    THEN CheckDocumentation_formatErrors(newErrors)
    ELSE CheckCodesByTwistedChecker_formatErrors(newErrors)

\* What a call of processLogs that raises leaves behind: no log, no value.
Raised ==
    [raised |-> TRUE, logs |-> <<>>, newErrors |-> EmptyDict, worse |-> FALSE,
     currentErrors |-> EmptyDict, previousErrors |-> EmptyDict]

\* What a call of processLogs that returns leaves behind: r of its end, and
\* the two dicts it parsed.
Returned(r, currentErrors, previousErrors) ==
    [raised |-> r.raised, logs |-> r.logs, newErrors |-> r.newErrors,
     worse |-> r.worse,
     currentErrors |-> currentErrors, previousErrors |-> previousErrors]

\* '\n'.join(self.formatErrors(errors))
Formatted(adapter, errors) == Join(formatErrors(adapter, errors), <<"\n">>)

\* The end of both processLogs, from the computed difference: the
\* "new ... errors" log when it is not empty, and the returned bool. logs are
\* the addCompleteLog calls made before, as (name, text) in call order.
Report(adapter, newErrors, logs) ==
    [raised |-> FALSE,
     logs |->
        IF newErrors # EmptyDict
        THEN Append(logs, [name |-> NewErrorsLogName(adapter),
                           text |-> Formatted(adapter, newErrors)])
        ELSE logs,
     newErrors |-> newErrors,
     worse |-> newErrors # EmptyDict]

\* LintStep.processLogs once both texts are parsed.
LintStep_processParsed(adapter, current, previous) ==
    IF current.raised \/ previous.raised THEN Raised
    ELSE Returned(Report(adapter,
                         computeDifference(current.errors, previous.errors),
                         << [name |-> ErrorsLogName(adapter),
                             text |-> Formatted(adapter, current.errors)] >>),
                  current.errors, previous.errors)

\* LintStep.processLogs(oldText, newText)
LintStep_processLogs(adapter, oldText, newText) ==
    LintStep_processParsed(adapter, computeErrors(adapter, newText),
                           computeErrors(adapter, oldText))

\* parts[0:2]
FirstTwo(parts) == UpTo(parts, IF Len(parts) < 2 THEN Len(parts) ELSE 2)

\* ".".join(k.split(".")[0:2])
Toplevel(k) == Join(FirstTwo(Split(k, ".")), <<".">>)

\* itertools.groupby(keys, Toplevel): runs of consecutive keys with one
\* toplevel, as a list of (toplevel, modules).
\* One key k with its toplevel top: it joins the last group when that group
\* has the same toplevel, and starts a group otherwise.
Grouped(groups, k, top) ==
    IF groups # <<>> /\ groups[Len(groups)].toplevel = top
    THEN [groups EXCEPT ![Len(groups)].modules = Append(@, k)]
    ELSE Append(groups, [toplevel |-> top, modules |-> <<k>>])

RECURSIVE GroupBy(_, _)
GroupBy(keys, groups) ==
    IF keys = <<>> THEN groups
    ELSE GroupBy(Tail(keys), Grouped(groups, Head(keys), Toplevel(Head(keys))))

\* dict([(module, currentErrors[module]) for module in modules])
Part(currentErrors, modules) ==
    [module \in {modules[i] : i \in 1..Len(modules)} |-> currentErrors[module]]

\* The addCompleteLog calls of the loop over the groups.
GroupLogs(adapter, currentErrors, groups) ==
    [i \in 1..Len(groups) |->
        [name |-> lintChecker(adapter) \o <<" ">> \o groups[i].toplevel
                  \o <<" ", "e", "r", "r", "o", "r", "s">>,
         text |-> Formatted(adapter,
                            Part(currentErrors, groups[i].modules))]]

ToplevelLogs(adapter, currentErrors) ==
    GroupLogs(adapter, currentErrors,
              GroupBy(SortSet(DOMAIN currentErrors, StrLess), <<>>))

\* CheckCodesByTwistedChecker.processLogs once both texts are parsed.
CheckCodesByTwistedChecker_processParsed(adapter, current, previous) ==
    IF current.raised \/ previous.raised THEN Raised
    ELSE Returned(Report(adapter,
                         computeDifference(current.errors, previous.errors),
                         ToplevelLogs(adapter, current.errors)),
                  current.errors, previous.errors)

\* CheckCodesByTwistedChecker.processLogs(oldText, newText)
CheckCodesByTwistedChecker_processLogs(adapter, oldText, newText) ==
    CheckCodesByTwistedChecker_processParsed(
        adapter, computeErrors(adapter, newText),
        computeErrors(adapter, oldText))

\* self.processLogs(oldText, newText), by the class of self.
processLogs(adapter, oldText, newText) ==
    IF adapter = "CheckCodesByTwistedChecker"
    THEN CheckCodesByTwistedChecker_processLogs(adapter, oldText, newText)
    ELSE LintStep_processLogs(adapter, oldText, newText)

(***************************************************************************)
(* The baseline: _getLastBuild and getPreviousLog                          *)
(***************************************************************************)

\* range(1, 11): the walk looks at number - 1 down to number - 10.
RangeStart == 1
RangeStop == 11

\* builder.getBuild(k): the history maps the numbers of the builds the host
\* still has to their records; any other number gets None.
HasBuild(history, k) == k \in DOMAIN history

\* builder.getBuild(k) raises instead of returning: the host has a record of
\* build k and cannot load it.
Raises(history, k) == HasBuild(history, k) /\ history[k].unreadable

\* What _getLastBuild leaves behind when getBuild raises: the loop has no
\* try, so the exception leaves _getLastBuild.
LookupRaised(queried) ==
    [found |-> FALSE, number |-> -1, queried |-> queried, raised |-> TRUE]

\* return None
ReturnedNone(queried) ==
    [found |-> FALSE, number |-> -1, queried |-> queried, raised |-> FALSE]

\* return build, the build of number k
ReturnedBuild(k, queried) ==
    [found |-> TRUE, number |-> k, queried |-> queried, raised |-> FALSE]

\* Mutant: the branch of a build not looked at.
RECURSIVE getLastBuildLoopAnyBranch(_, _, _, _)
getLastBuildLoopAnyBranch(history, number, i, queried) ==
    IF i >= RangeStop
    THEN ReturnedNone(queried)
    ELSE IF Raises(history, number - i)
    THEN LookupRaised(Append(queried, number - i))
    ELSE IF ~HasBuild(history, number - i)
    THEN getLastBuildLoopAnyBranch(history, number, i + 1,
                                   Append(queried, number - i))
    ELSE ReturnedBuild(number - i, Append(queried, number - i))

\* Mutant: one more turn of the loop.
RECURSIVE getLastBuildLoopOneMore(_, _, _, _)
getLastBuildLoopOneMore(history, number, i, queried) ==
    IF i > RangeStop
    THEN ReturnedNone(queried)
    ELSE IF Raises(history, number - i)
    THEN LookupRaised(Append(queried, number - i))
    ELSE IF ~HasBuild(history, number - i)
            \/ history[number - i].branch # <<>>
    THEN getLastBuildLoopOneMore(history, number, i + 1,
                                 Append(queried, number - i))
    ELSE ReturnedBuild(number - i, Append(queried, number - i))

\* The loop of _getLastBuild from index i on; queried lists the numbers
\* passed to getBuild so far.
RECURSIVE getLastBuildLoop(_, _, _, _)
getLastBuildLoop(history, number, i, queried) ==
    IF i >= RangeStop
    THEN ReturnedNone(queried)
    ELSE LET k == number - i
             asked == Append(queried, k)
         IN IF Raises(history, k)
            THEN LookupRaised(asked)
            ELSE IF ~HasBuild(history, k)
            THEN getLastBuildLoop(history, number, i + 1, asked)
            ELSE IF history[k].branch = <<>>
            THEN ReturnedBuild(k, asked)
            ELSE getLastBuildLoop(history, number, i + 1, asked)

\* LintStep._getLastBuild(): found is FALSE for None.
_getLastBuild(history, number) ==
    IF number = 0
    THEN ReturnedNone(<<>>)
    ELSE getLastBuildLoop(history, number, RangeStart, <<>>)

\* The text of the first log of the list with the given name, "" if none.
RECURSIVE FirstLogText(_, _)
FirstLogText(buildLogs, name) ==
    IF buildLogs = <<>> THEN <<>>
    ELSE IF Head(buildLogs).name = name THEN Head(buildLogs).text
    ELSE FirstLogText(Tail(buildLogs), name)

\* Mutant: without a log of the name, the first log of the build is taken.
getPreviousLogAnyLog(adapter, history, number) ==
    LET build == _getLastBuild(history, number)
    IN IF ~build.found THEN <<>>
       ELSE IF HasLog(history[build.number].logs, ErrorsLogName(adapter))
       THEN FirstLogText(history[build.number].logs, ErrorsLogName(adapter))
       ELSE FirstLogText(history[build.number].logs, StdioLogName)

\* LintStep.getPreviousLog(); when _getLastBuild raises nothing is returned,
\* which createSummary looks at before it uses the text.
getPreviousLog(adapter, history, number) ==
    LET build == _getLastBuild(history, number)
    IN IF ~build.found THEN <<>>
       ELSE FirstLogText(history[build.number].logs, ErrorsLogName(adapter))

\* The results the host's ShellCommand.evaluateCommand(cmd) can give. The
\* method is the host's: the step only calls it. For exit code 0 the unit
\* tests expect SUCCESS; what it makes of a nonzero exit code is not settled
\* by the step, so either result is possible.
ShellCommand_evaluateCommand(code) ==
    IF code = 0 THEN {"SUCCESS"} ELSE {"SUCCESS", "FAILURE"}

\* Mutant: self.worse ignored.
evaluateCommandIgnoringWorse(isWorse, code) ==
    ShellCommand_evaluateCommand(code)

\* LintStep.evaluateCommand(cmd): the results it can return, FAILURE alone
\* when self.worse and else whatever the host's method returns.
evaluateCommand(isWorse, code) ==
    IF isWorse THEN {"FAILURE"} ELSE ShellCommand_evaluateCommand(code)

(***************************************************************************)
(* Bounds and sample inputs                                                *)
(***************************************************************************)

\* Builds of one builder in a run of the lifecycle, numbered from 0.
MaxBuilds == 3

\* Lines of a tool output or baseline text given to processLogs.
MaxLines == 3

\* The highest current build number of a baseline walk, and the most builds
\* the host still has below it.
MaxNumber == 12
MaxExisting == 3

\* The highest current build number of a walk over a history with builds
\* the host cannot load.
MaxWalked == 5

\* The branch property: empty (None) for the default branch.
Branches == {<<>>, <<"b">>}

\* Exit codes of the wrapped tool.
ExitCodes == {0, 1}

\* Sample pydoctor output lines: noise, one invalid ref at two line numbers,
\* another invalid ref, an unknown field, and a line whose first token has
\* two colons.
PydoctorLines ==
    << <<"o", "k">>,
       <<"a", ".", "b", ":", "1", " ", "i", "n", "v", "a", "l", "i", "d", " ",
         "r", "e", "f", " ", "t", "o", " ", "X">>,
       <<"a", ".", "b", ":", "2", " ", "i", "n", "v", "a", "l", "i", "d", " ",
         "r", "e", "f", " ", "t", "o", " ", "X">>,
       <<"c", ":", "3", " ", "i", "n", "v", "a", "l", "i", "d", " ", "r", "e",
         "f", " ", "t", "o", " ", "Y">>,
       <<"f", "o", "u", "n", "d", " ", "u", "n", "k", "n", "o", "w", "n", " ",
         "f", "i", "e", "l", "d", " ", "o", "n", " ", "c">>,
       <<"a", ":", "b", ":", "1", " ", "i", "n", "v", "a", "l", "i", "d", " ",
         "r", "e", "f", " ", "t", "o", " ", "Z">> >>

\* Sample twistedchecker output lines: a module header, one warning at two
\* line numbers, another warning, a continuation line, a second header, the
\* first warning again, and a line that starts like a warning and is not one.
TwistedCheckerLines ==
    << prefixModuleName \o <<"m", ".", "a">>,
       <<"W", "0", "0", "0", "1", ":", " ", "1", ",", "0", ":", " ", "x">>,
       <<"W", "0", "0", "0", "1", ":", " ", "2", ",", "0", ":", " ", "x">>,
       <<"C", "0", "0", "0", "2", ":", " ", "1", ",", "4", ":", " ", "y">>,
       <<" ", "m", "o", "r", "e">>,
       prefixModuleName \o <<"m", ".", "b">>,
       <<"W", "0", "0", "0", "1", ":", " ", "1", ",", "0", ":", " ", "x">>,
       <<"W", "0", "0", "0", "3", ":", "b", "a", "d">> >>

SampleLines(adapter) ==
    IF adapter = "CheckDocumentation" THEN PydoctorLines
    ELSE TwistedCheckerLines

\* The sample lines at the indices of I, in order, joined by newlines.
TextOf(lines, I) ==
    LET idx == SortSet(I, LAMBDA a, b : a < b)
    IN Join([k \in 1..Len(idx) |-> lines[idx[k]]], <<"\n">>)

\* Every text of at most MaxLines of the sample lines.
TextsOf(lines) ==
    {TextOf(lines, I) :
        I \in {J \in SUBSET (1..Len(lines)) : Cardinality(J) <= MaxLines}}

PydoctorTexts == TextsOf(PydoctorLines)
TwistedCheckerTexts == TextsOf(TwistedCheckerLines)

Texts(adapter) ==
    IF adapter = "CheckDocumentation" THEN PydoctorTexts
    ELSE TwistedCheckerTexts

\* The tool outputs of the builds of the lifecycle: nothing; one finding;
\* the same finding at another line number; two findings; and the sixth
\* sample line alone.
RunIndexSets == {{}, {1, 2}, {1, 3}, {1, 2, 4}, {6}}

PydoctorRunTexts == {TextOf(PydoctorLines, I) : I \in RunIndexSets}
TwistedCheckerRunTexts == {TextOf(TwistedCheckerLines, I) : I \in RunIndexSets}

RunTexts(adapter) ==
    IF adapter = "CheckDocumentation" THEN PydoctorRunTexts
    ELSE TwistedCheckerRunTexts

\* Sample finding lines of one module: a warning; the same at another line
\* number; at another indent; with another code; with another message; two
\* lines that start like a warning and are none; and a continuation line.
FindingLines ==
    << <<"W", "0", "0", "0", "1", ":", " ", "1", ",", "0", ":", " ",
         "x">>,
       <<"W", "0", "0", "0", "1", ":", " ", "2", ",", "0", ":", " ",
         "x">>,
       <<"W", "0", "0", "0", "1", ":", " ", "1", ",", "4", ":", " ",
         "x">>,
       <<"C", "0", "0", "0", "1", ":", " ", "1", ",", "0", ":", " ",
         "x">>,
       <<"W", "0", "0", "0", "1", ":", " ", "1", ",", "0", ":", " ",
         "y">>,
       <<"W", "0", "0", "0", "3", ":", "b", "a", "d">>,
       <<"E", "0", "0", "0", "4", ":", "o", "d", "d">>,
       <<" ", "m", "o", "r", "e">> >>

\* Finding lines of a module of a text given to processLogs.
MaxFindings == 3

\* A text of two modules, m before a, the findings of m not in their order.
TwoModuleText ==
    Join(<<prefixModuleName \o <<"m">>, FindingLines[5], FindingLines[4],
           prefixModuleName \o <<"a">>, FindingLines[2]>>, <<"\n">>)

\* A text with the header of module m twice, a finding after each.
RepeatedModuleText ==
    Join(<<prefixModuleName \o <<"m">>, FindingLines[1],
           prefixModuleName \o <<"m">>, FindingLines[4]>>, <<"\n">>)

\* A text with a finding before its first header.
HeaderlessText ==
    Join(<<FindingLines[1], prefixModuleName \o <<"m">>, FindingLines[4]>>,
         <<"\n">>)

\* The header of module m followed by at most MaxFindings of the sample
\* finding lines; the text of two modules; and the two texts above.
FindingTexts ==
    {Join(<<prefixModuleName \o <<"m">>, TextOf(FindingLines, I)>>, <<"\n">>) :
        I \in {J \in SUBSET (1..Len(FindingLines)) :
                    J # {} /\ Cardinality(J) <= MaxFindings}}
    \cup {prefixModuleName \o <<"m">>, TwoModuleText, RepeatedModuleText,
          HeaderlessText}

(***************************************************************************)
(* State                                                                   *)
(***************************************************************************)

VARIABLES
    adapter,      \* the class of the step the builder runs
    builds,       \* the host's history: number -> [branch, logs]
    number,       \* status.getNumber() of the current build
    branch,       \* the current build's branch property
    pc,           \* where the step is
    stdio,        \* the captured output of the tool
    rc,           \* the tool's exit code
    lastBuild,    \* what _getLastBuild returned, and the numbers it asked for
    previousLog,  \* what getPreviousLog returned
    currentErrors,   \* processLogs' currentErrors
    previousErrors,  \* processLogs' previousErrors
    newErrors,    \* the dict computeDifference returned
    logs,         \* the logs of the current build, in the order added
    worse,        \* self.worse
    result,       \* the step's terminal result
    heap          \* the dict and set objects of a call of computeDifference

vars == <<adapter, builds, number, branch, pc, stdio, rc, lastBuild,
          previousLog, currentErrors, previousErrors, newErrors, logs, worse,
          result, heap>>

NoBuild == ReturnedNone(<<>>)

\* A step that has not run: a fresh step object per build.
FreshStep ==
    /\ stdio = <<>>
    /\ rc = 0
    /\ lastBuild = NoBuild
    /\ previousLog = <<>>
    /\ currentErrors = EmptyDict
    /\ previousErrors = EmptyDict
    /\ newErrors = EmptyDict
    /\ logs = <<>>
    /\ worse = FALSE
    /\ result = "none"
    /\ heap = NoObjects

\* The same of the step of the next build.
FreshStepNext ==
    /\ stdio' = <<>>
    /\ rc' = 0
    /\ lastBuild' = NoBuild
    /\ previousLog' = <<>>
    /\ currentErrors' = EmptyDict
    /\ previousErrors' = EmptyDict
    /\ newErrors' = EmptyDict
    /\ logs' = <<>>
    /\ worse' = FALSE
    /\ result' = "none"
    /\ heap' = NoObjects

Init ==
    /\ adapter \in Adapters
    /\ builds = EmptyDict
    /\ number = 0
    /\ branch = <<>>
    /\ pc = "NotStarted"
    /\ FreshStep

(***************************************************************************)
(* Actions                                                                 *)
(***************************************************************************)

\* The host starts build `number` on branch b and runs the tool.
StartBuild(b) ==
    /\ pc = "NotStarted"
    /\ number < MaxBuilds
    /\ pc' = "RunningTool"
    /\ branch' = b
    /\ UNCHANGED heap
    /\ UNCHANGED <<adapter, builds, number, stdio, rc, lastBuild, previousLog,
                   currentErrors, previousErrors, newErrors, logs, worse,
                   result>>

\* The tool ends with exit code `code`, having written `text`, which the host
\* keeps as the log "stdio" of the build.
ToolCompletes(text, code) ==
    /\ pc = "RunningTool"
    /\ pc' = "CollectingOutput"
    /\ stdio' = text
    /\ rc' = code
    /\ logs' = Append(logs, [name |-> StdioLogName, text |-> text])
    /\ UNCHANGED heap
    /\ UNCHANGED <<adapter, builds, number, branch, lastBuild, previousLog,
                   currentErrors, previousErrors, newErrors, worse, result>>

\* self.worse = self.processLogs(oldText, logText); an exception ends the
\* step with the result EXCEPTION and evaluateCommand is not called.
Summarized(r) ==
    /\ logs' = logs \o r.logs
    /\ currentErrors' = r.currentErrors
    /\ previousErrors' = r.previousErrors
    /\ newErrors' = r.newErrors
    /\ worse' = r.worse
    /\ pc' = IF r.raised THEN "Verdict" ELSE "Diffing"
    /\ result' = IF r.raised THEN "EXCEPTION" ELSE result

Summarize(oldText) == Summarized(processLogs(adapter, oldText, stdio))

\* LintStep.createSummary(logObj): an exception of getPreviousLog leaves
\* createSummary before processLogs is called.
createSummary ==
    /\ pc = "CollectingOutput"
    /\ lastBuild' = _getLastBuild(builds, number)
    /\ previousLog' = getPreviousLog(adapter, builds, number)
    /\ IF lastBuild'.raised
       THEN Summarized(Raised)
       ELSE Summarize(previousLog')
    /\ UNCHANGED heap
    /\ UNCHANGED <<adapter, builds, number, branch, stdio, rc>>

\* createSummary with getPreviousLog replaced by a given text, as the unit
\* tests run the step.
createSummaryGiven ==
    /\ pc = "CollectingOutput"
    /\ Summarize(previousLog)
    /\ UNCHANGED heap
    /\ UNCHANGED <<adapter, builds, number, branch, stdio, rc, lastBuild,
                   previousLog>>

\* The host asks the step for its result.
EvaluateCommand ==
    /\ pc = "Diffing"
    /\ pc' = "Verdict"
    /\ result' \in evaluateCommand(worse, rc)
    /\ UNCHANGED heap
    /\ UNCHANGED <<adapter, builds, number, branch, stdio, rc, lastBuild,
                   previousLog, currentErrors, previousErrors, newErrors,
                   logs, worse>>

\* The build ends: the host keeps its record, and the next build gets the
\* next number and a fresh step.
FinishBuild ==
    /\ pc = "Verdict"
    /\ number + 1 < MaxBuilds
    /\ builds' = Put(builds, number,
                     [branch |-> branch, logs |-> logs, unreadable |-> FALSE])
    /\ number' = number + 1
    /\ pc' = "NotStarted"
    /\ branch' = <<>>
    /\ FreshStepNext
    /\ UNCHANGED adapter

\* The host drops the record of a finished build.
PruneBuild(k) ==
    /\ pc = "NotStarted"
    /\ k \in DOMAIN builds
    /\ builds' = [x \in DOMAIN builds \ {k} |-> builds[x]]
    /\ UNCHANGED heap
    /\ UNCHANGED <<adapter, number, branch, pc, stdio, rc, lastBuild,
                   previousLog, currentErrors, previousErrors, newErrors,
                   logs, worse, result>>

Next ==
    \/ \E b \in Branches : StartBuild(b)
    \/ \E text \in RunTexts(adapter), code \in ExitCodes :
            ToolCompletes(text, code)
    \/ createSummary
    \/ EvaluateCommand
    \/ FinishBuild
    \/ \E k \in 0..(MaxBuilds - 1) : PruneBuild(k)

\* LintStep.computeDifference(current, previous) called on the dicts of heap,
\* as the unit tests call it; newErrors is the dict returned, by value.
CallComputeDifference ==
    /\ pc = "CollectingOutput"
    /\ heap.new = NoneRef
    /\ LET r == computeDifferenceObjects(heap.objects, heap.current,
                                         heap.previous)
       IN /\ heap' = [heap EXCEPT !.objects = r.objects, !.new = r.ref]
          /\ newErrors' = ValueOf(r.objects, r.ref)
    /\ pc' = "Diffing"
    /\ UNCHANGED <<adapter, builds, number, branch, stdio, rc, lastBuild,
                   previousLog, currentErrors, previousErrors, logs, worse,
                   result>>

\* The builds of one builder, one after the other.
Spec == Init /\ [][Next]_vars

(***************************************************************************)
(* processLogs on given texts                                              *)
(***************************************************************************)

InitProcessLogs ==
    /\ adapter \in Adapters
    /\ builds = EmptyDict
    /\ number = 0
    /\ branch = <<>>
    /\ pc = "RunningTool"
    /\ stdio = <<>>
    /\ rc = 0
    /\ lastBuild = NoBuild
    /\ previousLog \in Texts(adapter)
    /\ currentErrors = EmptyDict
    /\ previousErrors = EmptyDict
    /\ newErrors = EmptyDict
    /\ logs = <<>>
    /\ worse = FALSE
    /\ result = "none"
    /\ heap = NoObjects

NextProcessLogs ==
    \/ \E text \in Texts(adapter), code \in ExitCodes :
            ToolCompletes(text, code)
    \/ createSummaryGiven
    \/ EvaluateCommand

\* One run of the step on every pair of sample texts.
SpecProcessLogs == InitProcessLogs /\ [][NextProcessLogs]_vars

(***************************************************************************)
(* The baseline walk on given histories                                    *)
(***************************************************************************)

\* The histories below build n with at most MaxExisting builds left.
Histories(n) ==
    UNION {[S -> [branch : Branches, logs : {<<>>}, unreadable : {FALSE}]] :
            S \in {T \in SUBSET (0..(n - 1)) : Cardinality(T) <= MaxExisting}}

InitLastBuild ==
    /\ adapter \in Adapters
    /\ number \in 0..MaxNumber
    /\ builds \in Histories(number)
    /\ branch \in Branches
    /\ pc = "RunningTool"
    /\ FreshStep

NextLastBuild ==
    \/ ToolCompletes(<<>>, 0)
    \/ createSummary
    \/ EvaluateCommand

\* The step of one build, its tool silent, on every sample history.
SpecLastBuild == InitLastBuild /\ [][NextLastBuild]_vars

(***************************************************************************)
(* The baseline walk when the host cannot load some builds                 *)
(***************************************************************************)

\* The histories below build n with at most MaxExisting builds left, any of
\* which the host may be unable to load.
UnreadableHistories(n) ==
    UNION {[S -> [branch : Branches, logs : {<<>>}, unreadable : BOOLEAN]] :
            S \in {T \in SUBSET (0..(n - 1)) : Cardinality(T) <= MaxExisting}}

InitLookupFails ==
    /\ adapter \in Adapters
    /\ number \in 0..MaxWalked
    /\ builds \in UnreadableHistories(number)
    /\ branch \in Branches
    /\ pc = "RunningTool"
    /\ FreshStep

NextLookupFails ==
    \/ ToolCompletes(<<>>, 0)
    \/ createSummary
    \/ EvaluateCommand

\* The step of one build, its tool silent, on every sample history with
\* builds the host cannot load.
SpecLookupFails == InitLookupFails /\ [][NextLookupFails]_vars

(***************************************************************************)
(* computeDifference on given dicts                                        *)
(***************************************************************************)

\* The keys and the elements of the dicts of the tests of computeDifference.
DifferenceKeys == {<<"s", "t", "u", "f", "f">>, <<"o", "t", "h", "e", "r">>}
DifferenceElements == {Str(<<"a">>), Str(<<"b">>), Str(<<"x">>)}

\* Every dict of sets over them.
DifferenceDicts ==
    UNION {[K -> SUBSET DifferenceElements] : K \in SUBSET DifferenceKeys}

InitDifference ==
    /\ adapter = "CheckDocumentation"
    /\ builds = EmptyDict
    /\ number = 0
    /\ branch = <<>>
    /\ pc = "CollectingOutput"
    /\ stdio = <<>>
    /\ rc = 0
    /\ lastBuild = NoBuild
    /\ previousLog = <<>>
    /\ currentErrors \in DifferenceDicts
    /\ previousErrors \in DifferenceDicts
    /\ newErrors = EmptyDict
    /\ logs = <<>>
    /\ worse = FALSE
    /\ result = "none"
    /\ heap = Arguments(currentErrors, previousErrors)

NextDifference == CallComputeDifference

\* One call of computeDifference on every pair of sample dicts.
SpecDifference == InitDifference /\ [][NextDifference]_vars

(***************************************************************************)
(* CheckCodesByTwistedChecker on the findings of one module                *)
(***************************************************************************)

InitFindingLines ==
    /\ adapter = "CheckCodesByTwistedChecker"
    /\ builds = EmptyDict
    /\ number = 0
    /\ branch = <<>>
    /\ pc = "RunningTool"
    /\ stdio = <<>>
    /\ rc = 0
    /\ lastBuild = NoBuild
    /\ previousLog \in FindingTexts
    /\ currentErrors = EmptyDict
    /\ previousErrors = EmptyDict
    /\ newErrors = EmptyDict
    /\ logs = <<>>
    /\ worse = FALSE
    /\ result = "none"
    /\ heap = NoObjects

NextFindingLines ==
    \/ \E text \in FindingTexts : ToolCompletes(text, 0)
    \/ createSummaryGiven
    \/ EvaluateCommand

\* One run of the step on every pair of sample modules.
SpecFindingLines == InitFindingLines /\ [][NextFindingLines]_vars

(***************************************************************************)
(* Properties                                                              *)
(***************************************************************************)

\* The step has parsed both texts and diffed them.
Diffed == pc = "Diffing" \/ (pc = "Verdict" /\ result # "EXCEPTION")

\* The step has reported FAILURE or SUCCESS.
Reported == pc = "Verdict" /\ result # "EXCEPTION"

\* The findings of group k of current equal to none of the baseline's group k.
NewOf(current, previous, k) ==
    {x \in current[k] :
        k \in DOMAIN previous => \A y \in previous[k] : ~PyEq(x, y)}

\* The groups of current with such a finding.
NewKeys(current, previous) ==
    {k \in DOMAIN current : NewOf(current, previous, k) # {}}

\* C1: whenever the current findings have one the baseline lacks, processLogs
\* has returned true (self.worse) and, whatever the exit code, the step's
\* result is FAILURE.
C1_NewFindingsFail ==
    (Diffed /\ NewKeys(currentErrors, previousErrors) # {})
        => /\ worse
           /\ pc = "Verdict" => result = "FAILURE"

\* A run with a new finding and exit code 0 that ended FAILURE.
C1_Witness ==
    /\ pc = "Verdict"
    /\ rc = 0
    /\ NewKeys(currentErrors, previousErrors) # {}
    /\ result = "FAILURE"

\* C2 as stated: with no new finding the result is SUCCESS whatever the exit
\* code.
C2_PassWhateverExitCode ==
    (Reported /\ NewKeys(currentErrors, previousErrors) = {})
        => result = "SUCCESS"

\* C3: the dict computeDifference returned has exactly the keys of current
\* with a finding equal to none of previous' same key, and at each the set of
\* those findings; so each value is a non-empty subset of current's, shares
\* no finding with previous', and a key of previous alone is no key of it.
C3_KeywiseDifference ==
    Diffed =>
        /\ DOMAIN newErrors = NewKeys(currentErrors, previousErrors)
        /\ \A k \in DOMAIN newErrors :
            /\ newErrors[k] = NewOf(currentErrors, previousErrors, k)
            /\ newErrors[k] # {}
            /\ newErrors[k] \subseteq currentErrors[k]
            /\ k \in DOMAIN previousErrors =>
                \A x \in newErrors[k], y \in previousErrors[k] : ~PyEq(x, y)
        /\ \A k \in DOMAIN previousErrors \ DOMAIN currentErrors :
                k \notin DOMAIN newErrors

\* A difference with a key, while a key of current is left out of it and
\* the baseline has a key current lacks or a finding current lacks.
C3_Witness ==
    /\ Diffed
    /\ newErrors # EmptyDict
    /\ \E k \in DOMAIN currentErrors :
            currentErrors[k] # {} /\ k \notin DOMAIN newErrors
    /\ \E k \in DOMAIN previousErrors :
            k \in DOMAIN currentErrors => previousErrors[k] # currentErrors[k]

\* The logs of a list that hold all findings of a run: those named
\* "<tool> errors" or "<tool> <toplevel> errors".
AllFindingsLogs(buildLogs) ==
    {i \in 1..Len(buildLogs) :
        StartsWith(buildLogs[i].name, lintChecker(adapter) \o <<" ">>)}

\* Build number - 1 is kept, was on the default branch, published a log of
\* all its findings, and the tool wrote then what it wrote now.
SameAsLastBuild ==
    /\ (number - 1) \in DOMAIN builds
    /\ builds[number - 1].branch = <<>>
    /\ AllFindingsLogs(builds[number - 1].logs) # {}
    /\ HasLog(builds[number - 1].logs, StdioLogName)
    /\ FirstLogText(builds[number - 1].logs, StdioLogName) = stdio

\* C4 as stated: when the build before was on the default branch and
\* published its findings, and the tool writes the same again and exits 0,
\* getPreviousLog returns the text published then, no "new ... errors" log
\* is added and the result is SUCCESS.
C4_SameOutputPasses ==
    (pc \in {"Diffing", "Verdict"} /\ SameAsLastBuild /\ rc = 0)
        => /\ \E i \in AllFindingsLogs(builds[number - 1].logs) :
                previousLog = builds[number - 1].logs[i].text
           /\ ~HasLog(logs, NewErrorsLogName(adapter))
           /\ pc = "Verdict" => result = "SUCCESS"

\* Every baseline finding is among the current ones, and some current
\* finding is not in the baseline.
BaselinePlusMore ==
    /\ \A k \in DOMAIN previousErrors :
        /\ k \in DOMAIN currentErrors
        /\ \A y \in previousErrors[k] : \E x \in currentErrors[k] : PyEq(x, y)
    /\ NewKeys(currentErrors, previousErrors) # {}

\* What the "new ... errors" log of the run parses to.
NewLogErrors ==
    computeErrors(adapter, FirstLogText(logs, NewErrorsLogName(adapter)))

\* C5: when the current findings are the baseline's and more, the step
\* fails and its "new ... errors" log holds, under the header of each group,
\* exactly the additional findings and none of the baseline.
C5_OnlyAdditionsReported ==
    (Diffed /\ BaselinePlusMore)
        => /\ worse
           /\ pc = "Verdict" => result = "FAILURE"
           /\ HasLog(logs, NewErrorsLogName(adapter))
           /\ ~NewLogErrors.raised
           /\ DOMAIN NewLogErrors.errors
                    = NewKeys(currentErrors, previousErrors)
           /\ \A k \in DOMAIN NewLogErrors.errors :
                /\ \A x \in NewLogErrors.errors[k] :
                        \E z \in NewOf(currentErrors, previousErrors, k) :
                            PyEq(x, z)
                /\ \A z \in NewOf(currentErrors, previousErrors, k) :
                        \E x \in NewLogErrors.errors[k] : PyEq(x, z)
                /\ k \in DOMAIN previousErrors =>
                        \A x \in NewLogErrors.errors[k] :
                            \A y \in previousErrors[k] : ~PyEq(x, y)

\* A failed run whose baseline had a finding and whose current text has it
\* and one more.
C5_Witness ==
    /\ Reported
    /\ BaselinePlusMore
    /\ \E k \in DOMAIN previousErrors : previousErrors[k] # {}
    /\ result = "FAILURE"
    /\ HasLog(logs, NewErrorsLogName(adapter))

\* Every current finding is in the same group of the baseline.
NothingAdded ==
    \A k \in DOMAIN currentErrors : \A x \in currentErrors[k] :
        /\ k \in DOMAIN previousErrors
        /\ \E y \in previousErrors[k] : PyEq(x, y)

\* C6: when the tool exits 0 and every current finding is in the same group
\* of the baseline, processLogs returns false, no "new ... errors" log is
\* added and the result is SUCCESS, whatever the baseline has besides.
C6_FixedFindingsPass ==
    (Diffed /\ rc = 0 /\ NothingAdded)
        => /\ ~worse
           /\ ~HasLog(logs, NewErrorsLogName(adapter))
           /\ pc = "Verdict" => result = "SUCCESS"

\* A passed run with a finding, whose baseline had a group more and, in a
\* group they share, a finding more.
C6_Witness ==
    /\ Reported
    /\ rc = 0
    /\ NothingAdded
    /\ result = "SUCCESS"
    /\ \E k \in DOMAIN currentErrors :
            /\ currentErrors[k] # {}
            /\ Cardinality(previousErrors[k]) > Cardinality(currentErrors[k])
    /\ DOMAIN previousErrors \ DOMAIN currentErrors # {}

\* C7 as stated: a run that ended FAILURE has a "new ... errors" log.
C7_FailureHasNewLog ==
    (pc = "Verdict" /\ result = "FAILURE")
        => HasLog(logs, NewErrorsLogName(adapter))

\* C8 as stated: every run of processLogs adds a log named "<tool> errors"
\* with the formatted current findings, and adds the "new ... errors" log
\* exactly when the difference is not empty.
C8_ErrorsLogAlways ==
    Diffed =>
        /\ HasLog(logs, ErrorsLogName(adapter))
        /\ FirstLogText(logs, ErrorsLogName(adapter))
                = Formatted(adapter, currentErrors)
        /\ HasLog(logs, NewErrorsLogName(adapter))
                <=> NewKeys(currentErrors, previousErrors) # {}

\* The builds of the window of build n that are kept and on the default
\* branch.
Qualifying(n) ==
    {k \in (n - 10)..(n - 1) :
        k \in DOMAIN builds /\ builds[k].branch = <<>>}

\* C9: for n >= 1, _getLastBuild returns the highest-numbered kept build of
\* n-10..n-1 with an empty branch, None when there is none, and never a
\* build with a branch.
C9_MostRecentDefaultBranch ==
    (Diffed /\ number >= 1) =>
        /\ lastBuild.found <=> Qualifying(number) # {}
        /\ lastBuild.found =>
            /\ lastBuild.number \in Qualifying(number)
            /\ \A k \in Qualifying(number) : k <= lastBuild.number
            /\ builds[lastBuild.number].branch = <<>>

\* The build before is kept and on a branch; an older one is returned.
C9_Witness ==
    /\ Diffed
    /\ (number - 1) \in DOMAIN builds
    /\ builds[number - 1].branch # <<>>
    /\ lastBuild.found
    /\ lastBuild.number < number - 2
    /\ (number - 2) \notin DOMAIN builds

\* C10: _getLastBuild asks for at most 10 builds, n-1, n-2, ... in this
\* order, stops at the first kept build with an empty branch, returns None
\* after 10 without asking for an 11th, and asks for none when n is 0.
C10_BoundedWalk ==
    Diffed =>
        /\ Len(lastBuild.queried) <= 10
        /\ \A i \in 1..Len(lastBuild.queried) :
            /\ lastBuild.queried[i] = number - i
            /\ i < Len(lastBuild.queried)
                    => lastBuild.queried[i] \notin Qualifying(number)
        /\ lastBuild.found =>
                lastBuild.number = lastBuild.queried[Len(lastBuild.queried)]
        /\ (~lastBuild.found /\ number >= 1) =>
            /\ Len(lastBuild.queried) = 10
            /\ lastBuild.queried[10] \notin Qualifying(number)
        /\ number = 0 => ~lastBuild.found /\ lastBuild.queried = <<>>

\* Ten builds asked for and none returned, though build n-11 is kept and on
\* the default branch.
C10_Witness ==
    /\ Diffed
    /\ ~lastBuild.found
    /\ Len(lastBuild.queried) = 10
    /\ (number - 11) \in DOMAIN builds
    /\ builds[number - 11].branch = <<>>

\* createSummary has run, with or without an exception.
Looked == pc = "Diffing" \/ pc = "Verdict"

\* No baseline: no build was returned, or the one returned has no log named
\* "<tool> errors".
NoBaseline ==
    \/ ~lastBuild.found
    \/ ~HasLog(builds[lastBuild.number].logs, ErrorsLogName(adapter))

\* A dict without its keys of empty sets.
NonEmptyGroups(errors) ==
    [k \in {x \in DOMAIN errors : errors[x] # {}} |-> errors[k]]

\* C11: without a baseline getPreviousLog returns "", no build older than the
\* one returned is asked for, and a run that parses its output then has as
\* its difference the current findings, less the groups without findings.
C11_MissingBaselineIsEmpty ==
    (Looked /\ NoBaseline) =>
        /\ previousLog = <<>>
        /\ lastBuild.found =>
                \A i \in 1..Len(lastBuild.queried) :
                    lastBuild.queried[i] >= lastBuild.number
        /\ Diffed =>
            /\ previousErrors = EmptyDict
            /\ newErrors = NonEmptyGroups(currentErrors)

\* A run with findings whose baseline build has logs, none of them named
\* "<tool> errors", and an older build kept.
C11_Witness ==
    /\ Diffed
    /\ lastBuild.found
    /\ builds[lastBuild.number].logs # <<>>
    /\ ~HasLog(builds[lastBuild.number].logs, ErrorsLogName(adapter))
    /\ \E k \in DOMAIN builds : k < lastBuild.number
    /\ newErrors # EmptyDict

\* C12 as stated: the build _getLastBuild returns has the branch of the
\* current build.
C12_SameBranchBaseline ==
    (Looked /\ lastBuild.found) => builds[lastBuild.number].branch = branch

\* C12 amended: the build _getLastBuild returns is on the default branch
\* whatever the branch of the current build, so its branch is the current
\* build's exactly when the current build is on the default branch; kept
\* builds of the current build's own branch are passed over.
C12_TrunkBaseline ==
    (Looked /\ lastBuild.found) =>
        /\ builds[lastBuild.number].branch = <<>>
        /\ builds[lastBuild.number].branch = branch <=> branch = <<>>
        /\ \A k \in DOMAIN builds :
            (lastBuild.number < k /\ k < number) => builds[k].branch # <<>>

\* A build on a branch whose baseline is a default-branch build, older than
\* a kept build of its own branch.
C12_Witness ==
    /\ Looked
    /\ branch # <<>>
    /\ lastBuild.found
    /\ builds[lastBuild.number].branch = <<>>
    /\ \E k \in DOMAIN builds :
        lastBuild.number < k /\ k < number /\ builds[k].branch = branch

\* The findings of a dict.
FindingsOf(errors) == UNION {errors[k] : k \in DOMAIN errors}

\* Two findings with the same kind and the same message.
SameKindAndText(x, y) == x.type = y.type /\ x.text = y.text

\* C13: two TwistedCheckerErrors are equal, and hash the same, exactly when
\* type and text agree, whatever line, indent and msg are; so a current
\* finding that agrees in type and text with a baseline finding of its
\* module is not in the difference.
C13_EqualByKindAndText ==
    Diffed =>
        /\ \A x, y \in FindingsOf(currentErrors)
                        \cup FindingsOf(previousErrors) :
            /\ PyEq(x, y) <=> SameKindAndText(x, y)
            /\ TwistedCheckerError_hash(x) = TwistedCheckerError_hash(y)
                    <=> SameKindAndText(x, y)
        /\ \A k \in DOMAIN currentErrors \cap DOMAIN previousErrors :
            \A x \in currentErrors[k] :
                (\E y \in previousErrors[k] : SameKindAndText(x, y))
                    => (k \notin DOMAIN newErrors \/ x \notin newErrors[k])

\* A module whose only current finding is a baseline finding at another
\* line number, and nothing is new.
C13_Witness ==
    /\ Diffed
    /\ newErrors = EmptyDict
    /\ \E k \in DOMAIN currentErrors \cap DOMAIN previousErrors :
        \E x \in currentErrors[k], y \in previousErrors[k] :
            /\ SameKindAndText(x, y)
            /\ x.line # y.line
            /\ x.msg # y.msg

\* The category code and the message of a finding as its raw text has them:
\* the five characters before the first colon, and the text field or, for
\* a line the regex does not match, the rest of the line after that colon.
RawCode(x) == UpTo(x.msg, 5)
RawMessage(x) ==
    IF x.type = <<"U", "X", "X", "X", "X">> THEN From(FirstLine(x.msg), 6)
    ELSE x.text

\* The raw texts of two findings differ in the category code or the message.
RawDiffers(x, y) == RawCode(x) # RawCode(y) \/ RawMessage(x) # RawMessage(y)

\* C14 as stated: a current finding whose raw text differs in category code
\* or message from every baseline finding of its module is equal to none of
\* them, and the difference is then not empty; unparseable lines included.
C14_SensitiveToKindAndMessage ==
    Diffed =>
        \A k \in DOMAIN currentErrors \cap DOMAIN previousErrors :
            \A x \in currentErrors[k] :
                (\A y \in previousErrors[k] : RawDiffers(x, y))
                    => /\ \A y \in previousErrors[k] : ~PyEq(x, y)
                       /\ newErrors # EmptyDict

\* C15 as stated: computeErrors returns a dict for every text, so that no
\* run of either adapter ends with an exception raised while parsing.
C15_ParsingTotal == Looked => result # "EXCEPTION"

\* A str of digits, and one of whitespace followed by digits.
IsDigits(t) == t # <<>> /\ \A i \in 1..Len(t) : t[i] \in Digits
IsLineNumber(t) ==
    \E j \in 0..(Len(t) - 1) :
        /\ \A i \in 1..j : t[i] \in Whitespace
        /\ \A i \in (j + 1)..Len(t) : t[i] \in Digits

\* A category code: one of W C E F R and four digits.
IsKind(t) ==
    /\ Len(t) = 5
    /\ t[1] \in {"W", "C", "E", "F", "R"}
    /\ \A i \in 2..5 : t[i] \in Digits

\* msg begins "<kind>:<line>,<indent>:", the comma at a and the colon at b.
PatternMatchesAt(msg, a, b) ==
    /\ IsKind(SubSeq(msg, 1, 5))
    /\ msg[6] = ":"
    /\ IsLineNumber(SubSeq(msg, 7, a - 1))
    /\ msg[a] = ","
    /\ IsDigits(SubSeq(msg, a + 1, b - 1))
    /\ msg[b] = ":"

PatternMatches(msg) ==
    \E a \in 8..Len(msg) : \E b \in (a + 2)..Len(msg) :
        PatternMatchesAt(msg, a, b)

\* msg is head, alone or followed by further lines.
FirstLineIs(msg, head) ==
    /\ StartsWith(msg, head)
    /\ Len(msg) = Len(head) \/ msg[Len(head) + 1] = "\n"

\* The fields of x are those its msg begins with, the text up to the end of
\* the first line.
FieldsOfMsg(x) ==
    /\ IsKind(x.type)
    /\ IsLineNumber(x.line)
    /\ IsDigits(x.indent)
    /\ \A i \in 1..Len(x.text) : x.text[i] # "\n"
    /\ FirstLineIs(x.msg, x.type \o <<":">> \o x.line \o <<",">> \o x.indent
                          \o <<":">> \o x.text)

\* The fields of x are those of the sentinel.
IsSentinel(x) ==
    /\ x.type = <<"U", "X", "X", "X", "X">>
    /\ x.line = <<"9", "9", "9", "9">>
    /\ x.indent = <<"9">>
    /\ x.text = <<"U", "n", "p", "a", "r", "s", "e", "a", "b", "l", "e">>

\* x was made from a part of text, and has the fields of that part when the
\* pattern matches it and those of the sentinel when not.
MadeFrom(x, text) ==
    /\ Contains(text, x.msg)
    /\ IF PatternMatches(x.msg) THEN FieldsOfMsg(x) ELSE IsSentinel(x)

\* C16: a TwistedCheckerError made from a line the regex does not match has
\* type 'UXXXX', line '9999', indent '9' and text 'Unparseable'; made from
\* one it matches it has the matched fields; msg is the given text in both
\* cases.
C16_SentinelOrFields ==
    Diffed =>
        /\ \A x \in FindingsOf(currentErrors) : MadeFrom(x, stdio)
        /\ \A x \in FindingsOf(previousErrors) : MadeFrom(x, previousLog)

\* A module with a sentinel and a matched finding, and a baseline with a
\* matched finding of two lines.
C16_Witness ==
    /\ Diffed
    /\ \E x, y \in FindingsOf(currentErrors) :
        /\ IsSentinel(x)
        /\ ~PatternMatches(x.msg)
        /\ PatternMatches(y.msg)
        /\ FieldsOfMsg(y)
    /\ \E z \in FindingsOf(previousErrors) :
        PatternMatches(z.msg) /\ Contains(z.msg, <<"\n">>)

\* A line that starts a finding: a category code and a colon.
StartsFinding(line) ==
    Len(line) >= 6 /\ IsKind(SubSeq(line, 1, 5)) /\ line[6] = ":"

\* The lines of a module cut into findings: a line that starts a finding
\* opens one, any other line continues the one before it.
RECURSIVE BlocksOf(_, _)
BlocksOf(lines, blocks) ==
    IF lines = <<>> THEN blocks
    ELSE IF StartsFinding(Head(lines)) \/ blocks = <<>>
    THEN BlocksOf(Tail(lines), Append(blocks, Head(lines)))
    ELSE BlocksOf(Tail(lines),
                  [blocks EXCEPT ![Len(blocks)] = @ \o <<"\n">> \o Head(lines)])

\* The findings of the one module of the captured output, as its lines
\* after the header give them.
StdioBlocks == BlocksOf(Tail(Split(stdio, "\n")), <<>>)

\* The output is well formed and of one module: the header of module m,
\* followed by nothing or by a line that starts a finding, and no header
\* after it.
WellFormed ==
    /\ Split(stdio, "\n")[1] = prefixModuleName \o <<"m">>
    /\ \A i \in 2..Len(Split(stdio, "\n")) :
            ~StartsWith(Split(stdio, "\n")[i], prefixModuleName)
    /\ Len(Split(stdio, "\n")) >= 2
            => StartsFinding(Split(stdio, "\n")[2])

\* The msg of the findings parsed for module m.
ParsedMsgs == {x.msg : x \in currentErrors[<<"m">>]}

\* C17 as stated: the findings parsed from a well-formed module are its
\* blocks of lines, one finding for each, none lost or merged.
C17_RoundTrip ==
    (Diffed /\ WellFormed) =>
        /\ ParsedMsgs = {StdioBlocks[i] : i \in 1..Len(StdioBlocks)}
        /\ Cardinality(currentErrors[<<"m">>]) = Len(StdioBlocks)

\* Block i has the kind and message of no block before it.
FirstOfItsKind(blocks, i) ==
    \A j \in 1..(i - 1) :
        ~SameKindAndText(TwistedCheckerError(blocks[j]),
                         TwistedCheckerError(blocks[i]))

\* C17 amended: the findings parsed from a well-formed module are those of
\* its blocks that are the first with their kind and message, each with its
\* lines unchanged; a later block with the kind and message of an earlier
\* one is merged into it and its lines are not kept.
C17_RoundTripLessRepeats ==
    (Diffed /\ WellFormed) =>
        /\ ParsedMsgs = {StdioBlocks[i] : i \in
                {j \in 1..Len(StdioBlocks) : FirstOfItsKind(StdioBlocks, j)}}
        /\ Cardinality(currentErrors[<<"m">>]) = Cardinality(ParsedMsgs)

\* A module with one finding at two line numbers, the second of two lines:
\* one finding parsed from two blocks, the lines of the second not kept.
C17_Witness ==
    /\ Diffed
    /\ WellFormed
    /\ Len(StdioBlocks) = 2
    /\ Cardinality(currentErrors[<<"m">>]) = 1
    /\ Contains(StdioBlocks[2], <<"\n">>)
    /\ ~FirstOfItsKind(StdioBlocks, 2)
    /\ TwistedCheckerError(StdioBlocks[1]).line
            # TwistedCheckerError(StdioBlocks[2]).line
    /\ ParsedMsgs = {StdioBlocks[1]}

\* x comes before y by (line, indent, type, text), each compared as a str.
FindingBefore(x, y) ==
    IF x.line # y.line THEN StrLess(x.line, y.line)
    ELSE IF x.indent # y.indent THEN StrLess(x.indent, y.indent)
    ELSE IF x.type # y.type THEN StrLess(x.type, y.type)
    ELSE StrLess(x.text, y.text)

\* The msg of the findings of a set in ascending order: the one at i has
\* i - 1 before it.
MsgsAscending(S) ==
    [i \in 1..Cardinality(S) |->
        (CHOOSE x \in S :
            Cardinality({y \in S : FindingBefore(y, x)}) = i - 1).msg]

\* The header of module k and its findings in ascending order.
ModuleLines(errors, k) ==
    <<prefixModuleName \o k>> \o MsgsAscending(errors[k])

\* The same of the modules of K in ascending order of their names.
RECURSIVE ModulesAscending(_, _)
ModulesAscending(errors, K) ==
    IF K = {} THEN <<>>
    ELSE LET k == CHOOSE x \in K : \A y \in K \ {x} : StrLess(x, y)
         IN ModuleLines(errors, k) \o ModulesAscending(errors, K \ {k})

\* The text expected of formatErrors for a dict, its lines joined.
TextAscending(errors) ==
    Join(ModulesAscending(errors, DOMAIN errors), <<"\n">>)

\* The name of the log of the toplevel package m.
ModuleLogName ==
    lintChecker(adapter) \o <<" ", "m", " ", "e", "r", "r", "o", "r", "s">>

\* C18: what formatErrors gives for a dict is, for each key in ascending
\* order, the header of the module and then the msg of its findings in
\* ascending order of (line, indent, type, text); seen in the log of the new
\* findings and in the log of the findings of module m.
C18_FormatErrorsSorted ==
    Diffed =>
        /\ HasLog(logs, NewErrorsLogName(adapter)) =>
            FirstLogText(logs, NewErrorsLogName(adapter))
                = TextAscending(newErrors)
        /\ HasLog(logs, ModuleLogName)
        /\ FirstLogText(logs, ModuleLogName)
                = Join(ModuleLines(currentErrors, <<"m">>), <<"\n">>)

\* The new findings are of two modules, the second before the first by
\* name, and of two findings of module m the later in the output comes
\* first.
C18_Witness ==
    /\ Diffed
    /\ stdio = TwoModuleText
    /\ DOMAIN newErrors = {<<"a">>, <<"m">>}
    /\ Cardinality(newErrors[<<"m">>]) = 2
    /\ StartsWith(FirstLogText(logs, NewErrorsLogName(adapter)),
                  prefixModuleName \o <<"a">>)

\* C19 as stated: against an empty baseline the difference is the current
\* dict, also when that has a module without findings.
C19_EmptyPreviousGivesCurrent ==
    (Diffed /\ previousErrors = EmptyDict) => newErrors = currentErrors

\* C19 amended: against an empty baseline the difference is the current dict
\* less its keys of empty sets, so it is the current dict exactly when
\* every group has a finding.
C19_EmptyPreviousGivesNonEmptyGroups ==
    (Diffed /\ previousErrors = EmptyDict) =>
        /\ DOMAIN newErrors
                = {k \in DOMAIN currentErrors : currentErrors[k] # {}}
        /\ \A k \in DOMAIN newErrors : newErrors[k] = currentErrors[k]
        /\ newErrors = currentErrors
                <=> \A k \in DOMAIN currentErrors : currentErrors[k] # {}

\* An empty baseline and a current dict with a module with a finding and a
\* module without: the difference has the first only.
C19_Witness ==
    /\ Diffed
    /\ previousErrors = EmptyDict
    /\ \E k \in DOMAIN currentErrors : currentErrors[k] = {}
    /\ \E k \in DOMAIN currentErrors : currentErrors[k] # {}
    /\ newErrors # currentErrors
    /\ newErrors # EmptyDict

\* C20: the difference of a dict against itself is empty, and so is the
\* difference of the empty dict against any baseline.
C20_NoSelfRegression ==
    (Diffed /\ (currentErrors = previousErrors \/ currentErrors = EmptyDict))
        => newErrors = EmptyDict /\ ~worse

\* Two different texts with the same findings, and nothing is new.
C20_Witness ==
    /\ Diffed
    /\ currentErrors = previousErrors
    /\ \E k \in DOMAIN currentErrors : currentErrors[k] # {}
    /\ stdio # previousLog
    /\ newErrors = EmptyDict

\* The history without the builds the host cannot load.
Loadable(history) ==
    [k \in {x \in DOMAIN history : ~history[x].unreadable} |-> history[k]]

\* What the walk returns when a build that cannot be loaded counts as a
\* build that does not exist.
SkippingUnreadable == _getLastBuild(Loadable(builds), number)

\* Such a walk comes to a build the host cannot load.
FailedLookup ==
    \E i \in 1..Len(SkippingUnreadable.queried) :
        Raises(builds, SkippingUnreadable.queried[i])

\* C21 as stated: when getBuild raises for a build of the walk, the walk
\* goes on with the next older number as if the build did not exist, and
\* the step does not end with an exception.
C21_FailedLookupSkipped ==
    (Looked /\ FailedLookup) =>
        /\ lastBuild = SkippingUnreadable
        /\ result # "EXCEPTION"

\* C23 as stated: for n >= 1 every number _getLastBuild passes to getBuild
\* is one of 0..n-1.
C23_QueriesInRange ==
    (Looked /\ number >= 1) =>
        \A i \in 1..Len(lastBuild.queried) :
            lastBuild.queried[i] \in 0..(number - 1)

\* A line that is the header of a module.
IsHeader(line) == StartsWith(line, prefixModuleName)

\* The index of the last header before line i, 0 when there is none.
HeaderBefore(lines, i) ==
    LET H == {j \in 1..(i - 1) : IsHeader(lines[j])}
    IN IF H = {} THEN 0 ELSE CHOOSE j \in H : \A h \in H : h <= j

\* The index after the last line of the finding that starts at line i: the
\* next line that starts a finding or is a header, or the end.
BlockEnd(lines, i) ==
    LET E == {j \in (i + 1)..Len(lines) :
                StartsFinding(lines[j]) \/ IsHeader(lines[j])}
    IN IF E = {} THEN Len(lines) + 1 ELSE CHOOSE j \in E : \A e \in E : j <= e

\* The finding that starts at line i, with its continuation lines.
FindingAt(lines, i) ==
    TwistedCheckerError(Join(SubSeq(lines, i, BlockEnd(lines, i) - 1),
                             <<"\n">>))

\* The finding that starts at line i is in the set of the module of the
\* last header before it, or in some set when no header is before it.
Represented(errors, lines, i) ==
    LET h == HeaderBefore(lines, i)
        k == ReplaceWithEmpty(lines[h], prefixModuleName)
    IN IF h = 0
       THEN \E m \in DOMAIN errors :
                \E x \in errors[m] : PyEq(x, FindingAt(lines, i))
       ELSE /\ k \in DOMAIN errors
            /\ \E x \in errors[k] : PyEq(x, FindingAt(lines, i))

\* Every line of the text that starts a finding is represented.
NoFindingLost(errors, text) ==
    \A i \in 1..Len(Split(text, "\n")) :
        StartsFinding(Split(text, "\n")[i])
            => Represented(errors, Split(text, "\n"), i)

\* C22 as stated: CheckCodesByTwistedChecker.computeErrors loses no finding:
\* every line that starts a finding is, up to equality of findings, in the
\* set of the module whose header was the last before it, also when a header
\* occurs twice and when findings come before the first header.
C22_NoFindingLost ==
    Diffed => NoFindingLost(currentErrors, stdio)
                /\ NoFindingLost(previousErrors, previousLog)

\* computeDifference has been called on the dicts of heap.
Called == heap.new # NoneRef

\* The objects the call was given.
Given == Arguments(currentErrors, previousErrors).objects

\* The references a dict object holds.
RefsOf(objects, ref) ==
    {objects[ref].dict[k] : k \in DOMAIN objects[ref].dict}

\* C24: a call of computeDifference leaves every object it was given as it
\* was, the dicts current and previous and each of their sets; the dict it
\* returns and the sets in it are objects made by the call, none of them a
\* set of current or previous; and the dict returned is, by value, the
\* keywise difference.
C24_ArgumentsUntouched ==
    Called =>
        /\ \A ref \in 1..Len(Given) : heap.objects[ref] = Given[ref]
        /\ ValueOf(heap.objects, heap.current) = currentErrors
        /\ ValueOf(heap.objects, heap.previous) = previousErrors
        /\ heap.new > Len(Given)
        /\ \A ref \in RefsOf(heap.objects, heap.new) :
            /\ ref > Len(Given)
            /\ ref \notin RefsOf(heap.objects, heap.current)
            /\ ref \notin RefsOf(heap.objects, heap.previous)
        /\ newErrors = computeDifference(currentErrors, previousErrors)

\* A call whose result has a key with all the elements of the set of
\* current, in another object, and a key with fewer, previous having one of
\* the two keys only.
C24_Witness ==
    /\ Called
    /\ \E k \in DOMAIN newErrors :
        /\ k \notin DOMAIN previousErrors
        /\ newErrors[k] = currentErrors[k]
        /\ heap.objects[heap.new].dict[k]
                # heap.objects[heap.current].dict[k]
    /\ \E k \in DOMAIN newErrors :
        /\ k \in DOMAIN previousErrors
        /\ newErrors[k] # currentErrors[k]

====
